---- MODULE Spec2Model ----
(***************************************************************************)
(* Model of steam_data_collection.py: the checkpointed batch download      *)
(* (process_batches, get_app_data, reset_index, get_index,                 *)
(* prepare_data_file) and the retrying get_request.                        *)
(***************************************************************************)
EXTENDS Integers, Sequences, FiniteSets, TLC

(* ------------------------------ bounds --------------------------------- *)
\* longest app_list explored
MaxLen == 3
\* largest batchsize explored
MaxBatch == 2
\* most data rows the data file may hold (duplicates make it grow)
MaxRows == 4

VARIABLES
    app_list,      \* module-level app_list read by get_app_data (list of appids)
    arg_list,      \* the app_list argument of process_batches
    index_file,    \* the index file: [exists, text], text a sequence of characters
    data_file,     \* the data file: [exists, header, rows]
    pc,            \* position of the script
    index,         \* the driver's variable index (result of get_index)
    begin,         \* process_batches argument begin
    end_arg,       \* process_batches argument end as passed (-1 = default)
    end,           \* local end after the default has been substituted
    batchsize,     \* process_batches argument batchsize
    batches,       \* local batches (array of batch begin and end points)
    i,             \* loop variable of the batch loop (1-based here)
    todo,          \* rows of app_list[start:stop] get_app_data has not visited yet
    app_data,      \* records fetched for the current batch
    written,       \* records of app_data handed to the open file by writerows
    apps_written,  \* local apps_written
    outcome,       \* how the last operation ended
    failed_at,     \* pc at which the last run was aborted ("none" otherwise)
    h_rows0,       \* history: number of data rows when the current run started
    h_dirty,       \* history: a run was aborted between opening the data file and
                   \*          finishing the index write, since the last wipe
    h_cfg,         \* history: the (end, batchsize) of the runs since the last wipe
    h_max,         \* history: largest value the index file held since the last reset
    h_prev,        \* history: the collection that was complete when reset_index began
    gr_pc,         \* position of a get_request call
    gr_url,        \* get_request argument url
    gr_parameters, \* get_request argument parameters
    gr_log,        \* the requests handed to requests.get, in order
    gr_hist,       \* what requests.get answered to each of them, in order
    gr_exc,        \* the exception in flight in get_request ("none" if none)
    gr_sleep1,     \* number of time.sleep(1) calls of this get_request call
    gr_sleep10,    \* number of time.sleep(10) calls of this get_request call
    gr_result,     \* what the call returned, or the exception it ended with
    csv_pc,        \* position of writer.writerows(app_data)
    csv_columns,   \* the columns (fieldnames) of the DictWriter
    csv_app_data,  \* the records handed to writerows
    csv_rows,      \* the rows writerows has written, each a sequence of cells
    p_pc,          \* position of a parser call
    p_parser,      \* the parser called
    p_answer,      \* what requests.get answered to an HTML parser
    p_result       \* what the parser returned, or the exception it ended with

engine_vars == <<app_list, arg_list, index_file, data_file, pc, index, begin,
                 end_arg, end, batchsize, batches, i, todo, app_data, written,
                 apps_written, outcome, failed_at, h_rows0, h_dirty, h_cfg, h_max,
                 h_prev>>

gr_vars == <<gr_pc, gr_url, gr_parameters, gr_log, gr_hist, gr_exc, gr_sleep1,
             gr_sleep10, gr_result>>

csv_vars == <<csv_pc, csv_columns, csv_app_data, csv_rows>>

p_vars == <<p_pc, p_parser, p_answer, p_result>>

vars == <<engine_vars, gr_vars, csv_vars, p_vars>>

(* --------------------------- text of the index file -------------------- *)
Digits == <<"0", "1", "2", "3", "4", "5", "6", "7", "8", "9">>

RECURSIVE str(_)
\* str(n) of a non-negative integer: its decimal digits
str(n) == IF n < 10 THEN <<Digits[n + 1]>>
          ELSE str(n \div 10) \o <<Digits[(n % 10) + 1]>>

\* print(n, file=f): the digits followed by a newline
print_line(n) == str(n) \o <<"\n">>

RECURSIVE readline(_)
\* f.readline() on a file just opened: up to and including the first newline
readline(text) ==
    IF text = <<>> THEN <<>>
    ELSE IF Head(text) = "\n" THEN <<"\n">>
    ELSE <<Head(text)>> \o readline(Tail(text))

RECURSIVE strip(_)
\* the whitespace int() ignores at the end of the line
strip(s) == IF s # <<>> /\ s[Len(s)] = "\n" THEN strip(SubSeq(s, 1, Len(s) - 1))
            ELSE s

IsDigit(c) == \E d \in 1..10 : Digits[d] = c

DigitVal(c) == (CHOOSE d \in 1..10 : Digits[d] = c) - 1

\* int(s) raises ValueError unless s holds digits (and nothing else)
int_ok(s) == /\ strip(s) # <<>>
             /\ \A k \in 1..Len(strip(s)) : IsDigit(strip(s)[k])

RECURSIVE int_digits(_)
int_digits(s) == IF s = <<>> THEN 0
                 ELSE 10 * int_digits(SubSeq(s, 1, Len(s) - 1)) + DigitVal(s[Len(s)])

int(s) == int_digits(strip(s))

(* ------------------------------ files ---------------------------------- *)
NoIndexFile == [exists |-> FALSE, text |-> <<>>]

NoDataFile == [exists |-> FALSE, header |-> FALSE, rows |-> <<>>]

\* open(rel_path, 'w'): the file exists and is empty
open_w_index == [exists |-> TRUE, text |-> <<>>]

\* faulty variant: an empty first line is read as 0
get_index_raises_mut(f) ==
    f.exists /\ strip(readline(f.text)) # <<>> /\ ~int_ok(readline(f.text))

\* get_index raises (ValueError) on this file
get_index_raises(f) == f.exists /\ ~int_ok(readline(f.text))

\* the value get_index returns for this file
get_index_value(f) == IF f.exists THEN int(readline(f.text)) ELSE 0

(* --------------------------- pure helpers ------------------------------ *)
Min(a, b) == IF a < b THEN a ELSE b

Max(a, b) == IF a > b THEN a ELSE b

\* faulty variant: an empty range still yields its begin point
arange_len_mut(b, e, step) == IF e <= b THEN 1 ELSE ((e - b) + step - 1) \div step

\* len(np.arange(begin, end, batchsize)) for batchsize >= 1
arange_len(b, e, step) == IF e <= b THEN 0 ELSE ((e - b) + step - 1) \div step

\* np.arange(begin, end, batchsize)
arange(b, e, step) == [k \in 1..arange_len(b, e, step) |-> b + (k - 1) * step]

\* end as used: the default -1 becomes len(app_list) + 1
default_end(e, lst) == IF e = -1 THEN Len(lst) + 1 ELSE e

\* faulty variant: end is not appended, the last batch is lost
make_batches_mut(b, e, step) == arange(b, e, step)

\* batches = np.append(np.arange(begin, end, batchsize), end)
make_batches(b, e, step) == Append(arange(b, e, step), e)

\* faulty variant: the slice loses its first row
slice_mut(lst, start, stop) ==
    [k \in 1..Max(0, Min(stop, Len(lst)) - Min(start + 1, Len(lst))) |-> start + k]

\* index labels of app_list[start:stop] (a slice is clamped to the list)
slice(lst, start, stop) ==
    [k \in 1..Max(0, Min(stop, Len(lst)) - Min(start, Len(lst))) |-> start + (k - 1)]

\* the record the parser returns for row idx of lst
parser(lst, idx) == [index |-> idx, appid |-> lst[idx + 1]]

\* get_app_data(start, stop, parser, pause) run to its return
get_app_data(lst, start, stop) ==
    [k \in 1..Len(slice(lst, start, stop)) |-> parser(lst, slice(lst, start, stop)[k])]

RECURSIVE one_pass(_, _, _, _, _)
\* process_batches run without interruption from batch k on: the data rows
\* and the last index written (ckpt = -1: the index file was not written)
one_pass(lst, bs, k, rows, ckpt) ==
    IF k > Len(bs) - 1 THEN [rows |-> rows, ckpt |-> ckpt]
    ELSE one_pass(lst, bs, k + 1, rows \o get_app_data(lst, bs[k], bs[k + 1]), bs[k + 1])

(* ------------------------------ Init ----------------------------------- *)
AppLists == {[k \in 1..n |-> 100 + k] : n \in 0..MaxLen}

gr_idle ==
    /\ gr_pc = "idle"
    /\ gr_url = "none"
    /\ gr_parameters = "none"
    /\ gr_log = <<>>
    /\ gr_hist = <<>>
    /\ gr_exc = "none"
    /\ gr_sleep1 = 0
    /\ gr_sleep10 = 0
    /\ gr_result = [kind |-> "none", value |-> "none"]

\* no completed collection is remembered
NoCollection == [valid |-> FALSE, rows |-> <<>>, end |-> 0, batchsize |-> 1]

\* the files do not exist yet and nothing has run
engine_locals_init ==
    /\ data_file = NoDataFile
    /\ pc = "idle"
    /\ index = 0
    /\ begin = 0
    /\ end_arg = 0
    /\ end = 0
    /\ batchsize = 1
    /\ batches = <<0>>
    /\ i = 1
    /\ todo = <<>>
    /\ app_data = <<>>
    /\ written = 0
    /\ apps_written = 0
    /\ outcome = "none"
    /\ failed_at = "none"
    /\ h_rows0 = 0
    /\ h_dirty = FALSE
    /\ h_cfg = [n |-> 0, end |-> 0, batchsize |-> 1]
    /\ h_max = 0
    /\ h_prev = NoCollection

engine_init ==
    /\ app_list \in AppLists
    /\ arg_list = app_list      \* the script passes app_list=app_list
    /\ index_file = NoIndexFile
    /\ engine_locals_init

csv_idle ==
    /\ csv_pc = "idle"
    /\ csv_columns = <<>>
    /\ csv_app_data = <<>>
    /\ csv_rows = <<>>

\* the result of a parser call that has not ended
NoResult == [kind |-> "none", exc |-> "none", fields |-> <<>>]

p_idle ==
    /\ p_pc = "idle"
    /\ p_parser = "none"
    /\ p_answer = "none"
    /\ p_result = NoResult

Init == engine_init /\ gr_idle /\ csv_idle /\ p_idle

run_locals == <<begin, end_arg, end, batchsize, batches, i, todo, app_data,
                written, apps_written>>

lists == <<app_list, arg_list>>

(* ------------------------- reset_index --------------------------------- *)
\* with open(rel_path, 'w') as f:
reset_index_open ==
    /\ pc = "idle"
    /\ index_file' = open_w_index
    /\ pc' = "reset_open"
    /\ outcome' = "none"
    /\ failed_at' = "none"
    /\ h_prev' = IF /\ outcome = "done" /\ ~h_dirty /\ h_cfg.n = 1
                     /\ ~get_index_raises(index_file)
                     /\ get_index_value(index_file) > 0
                  THEN [valid |-> TRUE, rows |-> data_file.rows, end |-> h_cfg.end,
                        batchsize |-> h_cfg.batchsize]
                  ELSE NoCollection
    /\ UNCHANGED <<gr_vars, csv_vars, p_vars, lists, data_file, index, run_locals, h_rows0, h_dirty, h_cfg, h_max>>

\* print(0, file=f)
reset_index_print ==
    /\ pc = "reset_open"
    /\ index_file' = [index_file EXCEPT !.text = print_line(0)]
    /\ pc' = "idle"
    /\ outcome' = "reset"
    /\ h_max' = 0
    /\ UNCHANGED <<gr_vars, csv_vars, p_vars, lists, h_prev, data_file, index, run_locals, failed_at, h_rows0, h_dirty, h_cfg>>

(* --------------------------- get_index --------------------------------- *)
get_index ==
    /\ pc = "idle"
    /\ failed_at' = "none"
    /\ IF get_index_raises(index_file)
       THEN /\ outcome' = "get_index_raised"
            /\ UNCHANGED <<pc, index>>
       ELSE /\ index' = get_index_value(index_file)
            /\ pc' = "indexed"
            /\ outcome' = "none"
    /\ UNCHANGED <<gr_vars, csv_vars, p_vars, lists, h_prev, index_file, data_file, run_locals, h_rows0, h_dirty, h_cfg, h_max>>

(* ------------------------ prepare_data_file ---------------------------- *)
\* faulty variant: the file is wiped whatever the index is
prepared_file_mut(f, idx) == [exists |-> TRUE, header |-> TRUE, rows |-> <<>>]

\* faulty variant: the header is written without truncating the file
prepared_file_keep(f, idx) ==
    IF idx = 0 THEN [exists |-> TRUE, header |-> TRUE, rows |-> f.rows] ELSE f

\* the data file after prepare_data_file(download_path, filename, idx, columns)
prepared_file(f, idx) ==
    IF idx = 0 THEN [exists |-> TRUE, header |-> TRUE, rows |-> <<>>] ELSE f

prepare_data_file ==
    /\ pc = "indexed"
    /\ data_file' = prepared_file(data_file, index)
    /\ pc' = "prepared"
    /\ IF index = 0
       THEN /\ h_dirty' = FALSE
            /\ h_cfg' = [n |-> 0, end |-> 0, batchsize |-> 1]
       ELSE UNCHANGED <<h_dirty, h_cfg>>
    /\ UNCHANGED <<gr_vars, csv_vars, p_vars, lists, h_prev, index_file, index, run_locals, outcome, failed_at, h_rows0, h_max>>

(* ------------------------- process_batches ----------------------------- *)
EndArgs == {-1} \cup (0..(MaxLen + 1))

\* the call process_batches(..., begin=index, end=e, batchsize=b) up to the loop
process_batches_call(e, b) ==
    /\ pc = "prepared"
    /\ begin' = index
    /\ end_arg' = e
    /\ end' = default_end(e, arg_list)
    /\ batchsize' = b
    /\ batches' = make_batches(index, default_end(e, arg_list), b)
    /\ i' = 1
    /\ apps_written' = 0
    /\ todo' = <<>>
    /\ app_data' = <<>>
    /\ written' = 0
    /\ pc' = "loop"
    /\ h_rows0' = Len(data_file.rows)
    /\ h_cfg' = IF h_cfg.n = 0 THEN [n |-> 1, end |-> e, batchsize |-> b]
                ELSE IF h_cfg.end = e /\ h_cfg.batchsize = b THEN h_cfg
                ELSE [h_cfg EXCEPT !.n = 2]
    /\ h_prev' = IF h_prev.valid /\ index = 0 /\ e = h_prev.end /\ b = h_prev.batchsize
                  THEN h_prev ELSE NoCollection
    /\ UNCHANGED <<gr_vars, csv_vars, p_vars, lists, index_file, data_file, index, outcome, failed_at, h_dirty, h_max>>

process_batches_start == \E e \in EndArgs, b \in 1..MaxBatch : process_batches_call(e, b)

\* for i in range(len(batches) - 1): start = batches[i]; stop = batches[i+1]
loop_enter ==
    /\ pc = "loop"
    /\ i <= Len(batches) - 1
    /\ todo' = slice(app_list, batches[i], batches[i + 1])
    /\ app_data' = <<>>
    /\ written' = 0
    /\ pc' = "fetch"
    /\ UNCHANGED <<gr_vars, csv_vars, p_vars, lists, h_prev, index_file, data_file, index, begin, end_arg, end, batchsize,
                   batches, i, apps_written, outcome, failed_at, h_rows0, h_dirty,
                   h_cfg, h_max>>

\* the loop is exhausted: 'Processing batches complete'
loop_exit ==
    /\ pc = "loop"
    /\ i > Len(batches) - 1
    /\ pc' = "idle"
    /\ outcome' = "done"
    /\ UNCHANGED <<gr_vars, csv_vars, p_vars, lists, h_prev, index_file, data_file, index, run_locals, failed_at, h_rows0,
                   h_dirty, h_cfg, h_max>>

\* one iteration of get_app_data: data = parser(appid, name); app_data.append(data)
fetch_row ==
    /\ pc = "fetch"
    /\ todo # <<>>
    /\ app_data' = Append(app_data, parser(app_list, Head(todo)))
    /\ todo' = Tail(todo)
    /\ UNCHANGED <<gr_vars, csv_vars, p_vars, lists, h_prev, index_file, data_file, pc, index, begin, end_arg, end,
                   batchsize, batches, i, written, apps_written, outcome, failed_at,
                   h_rows0, h_dirty, h_cfg, h_max>>

\* faulty variant: the records fetched so far are written before the exception
\* leaves process_batches
parser_raises_mut ==
    /\ pc = "fetch"
    /\ todo # <<>>
    /\ data_file' = [data_file EXCEPT !.rows = data_file.rows \o app_data]
    /\ pc' = "idle"
    /\ outcome' = "raised"
    /\ failed_at' = "parser"
    /\ h_prev' = NoCollection
    /\ UNCHANGED <<gr_vars, csv_vars, p_vars, lists, index_file, index, run_locals, h_rows0, h_dirty,
                   h_cfg, h_max>>

\* the parser raises: the exception leaves get_app_data and process_batches
parser_raises ==
    /\ pc = "fetch"
    /\ todo # <<>>
    /\ pc' = "idle"
    /\ outcome' = "raised"
    /\ failed_at' = "parser"
    /\ h_prev' = NoCollection
    /\ UNCHANGED <<gr_vars, csv_vars, p_vars, lists, index_file, data_file, index, run_locals, h_rows0, h_dirty,
                   h_cfg, h_max>>

\* get_app_data returns; with open(rel_path, 'a', ...) as f:
open_data_file ==
    /\ pc = "fetch"
    /\ todo = <<>>
    /\ Len(data_file.rows) + Len(app_data) <= MaxRows
    /\ data_file' = [data_file EXCEPT !.exists = TRUE]
    /\ written' = 0
    /\ pc' = "write"
    /\ UNCHANGED <<gr_vars, csv_vars, p_vars, lists, h_prev, index_file, index, begin, end_arg, end, batchsize, batches, i,
                   todo, app_data, apps_written, outcome, failed_at, h_rows0, h_dirty,
                   h_cfg, h_max>>

\* writer.writerows(app_data): one record goes to the (buffered) file object
write_row ==
    /\ pc = "write"
    /\ written < Len(app_data)
    /\ written' = written + 1
    /\ UNCHANGED <<gr_vars, csv_vars, p_vars, lists, h_prev, index_file, data_file, pc, index, begin, end_arg, end,
                   batchsize, batches, i, todo, app_data, apps_written, outcome,
                   failed_at, h_rows0, h_dirty, h_cfg, h_max>>

\* the data file after the with block is left with n records handed to f:
\* closing the file flushes them
flushed(f, recs, n) == [f EXCEPT !.rows = f.rows \o SubSeq(recs, 1, n)]

\* the with block ends; apps_written += len(app_data)
close_data_file ==
    /\ pc = "write"
    /\ written = Len(app_data)
    /\ data_file' = flushed(data_file, app_data, written)
    /\ apps_written' = apps_written + Len(app_data)
    /\ pc' = "appended"
    /\ UNCHANGED <<gr_vars, csv_vars, p_vars, lists, h_prev, index_file, index, begin, end_arg, end, batchsize, batches, i,
                   todo, app_data, written, outcome, failed_at, h_rows0, h_dirty,
                   h_cfg, h_max>>

\* faulty variant: the index file is written as soon as get_app_data returned,
\* before the batch is appended to the data file
open_index_file_mut ==
    /\ pc = "fetch"
    /\ todo = <<>>
    /\ index_file' = open_w_index
    /\ pc' = "idx_open"
    /\ UNCHANGED <<gr_vars, csv_vars, p_vars, lists, h_prev, data_file, index, run_locals, outcome, failed_at, h_rows0,
                   h_dirty, h_cfg, h_max>>

\* with open(idx_path, 'w') as f:
open_index_file ==
    /\ pc = "appended"
    /\ index_file' = open_w_index
    /\ pc' = "idx_open"
    /\ UNCHANGED <<gr_vars, csv_vars, p_vars, lists, h_prev, data_file, index, run_locals, outcome, failed_at, h_rows0,
                   h_dirty, h_cfg, h_max>>

\* faulty variant: the start of the batch is written instead of its stop
index_written_mut(bs, k) == bs[k]

\* the index written for batch k of bs: index = stop
index_written(bs, k) == bs[k + 1]

\* print(index, file=f); the with block ends
print_index ==
    /\ pc = "idx_open"
    /\ index_file' = [index_file EXCEPT !.text = print_line(index_written(batches, i))]
    /\ h_max' = Max(h_max, index_written(batches, i))
    /\ pc' = "batch_done"
    /\ UNCHANGED <<gr_vars, csv_vars, p_vars, lists, h_prev, data_file, index, run_locals, outcome, failed_at, h_rows0,
                   h_dirty, h_cfg>>

\* the timing report; the for loop goes to its next iteration
next_batch ==
    /\ pc = "batch_done"
    /\ i' = i + 1
    /\ pc' = "loop"
    /\ UNCHANGED <<gr_vars, csv_vars, p_vars, lists, h_prev, index_file, data_file, index, begin, end_arg, end, batchsize,
                   batches, todo, app_data, written, apps_written, outcome, failed_at,
                   h_rows0, h_dirty, h_cfg, h_max>>

(* ---------------------------- interruption ----------------------------- *)
RunPcs == {"fetch", "write", "appended", "idx_open", "batch_done"}

CommitPcs == {"write", "appended", "idx_open"}

\* an exception (KeyboardInterrupt, an I/O error, a record writerows cannot
\* write) ends the run at the current statement; a with block that is open
\* closes its file on the way out
interrupt ==
    /\ pc \in RunPcs \cup {"reset_open"}
    /\ data_file' = IF pc = "write" THEN flushed(data_file, app_data, written)
                    ELSE data_file
    /\ failed_at' = pc
    /\ outcome' = "raised"
    /\ pc' = "idle"
    /\ h_dirty' = (h_dirty \/ pc \in CommitPcs)
    /\ h_prev' = NoCollection
    /\ UNCHANGED <<gr_vars, csv_vars, p_vars, lists, index_file, index, run_locals, h_rows0, h_cfg, h_max>>

(* ------------------------------ claims --------------------------------- *)
\* the checkpoint: what get_index would return now
checkpoint == get_index_value(index_file)

\* the index file can be read by get_index
readable == ~get_index_raises(index_file)

\* number of data rows written for row idx of the list
rows_of(idx) == Cardinality({k \in 1..Len(data_file.rows) : data_file.rows[k].index = idx})

\* no run is in progress and the last run of process_batches ran to its end
run_done == pc = "idle" /\ outcome = "done"

\* C1: after any sequence of (possibly interrupted) runs, each started with
\* begin = get_index(), every list index below the checkpoint has exactly one
\* row in the data file and no index has two rows.
C1_NoDuplication ==
    (pc = "idle" /\ readable) =>
        \A idx \in 0..(Len(app_list) - 1) :
            /\ rows_of(idx) <= 1
            /\ idx < checkpoint => rows_of(idx) = 1

\* C2: a failure after get_app_data returned and before the append of the
\* batch completed leaves no row of that batch in the data file and leaves
\* the index file as it was when the batch began.
C2_AtomicBatchCommit ==
    (pc = "idle" /\ outcome = "raised" /\ failed_at = "write") =>
        /\ Len(data_file.rows) = h_rows0 + apps_written
        /\ readable
        /\ checkpoint = batches[i]

\* C3: a run completed after stopping any number of times at a batch boundary
\* and resuming with begin = get_index() (same end and batchsize) leaves the
\* rows and the checkpoint of one uninterrupted run from begin = 0.
C3_Resumability ==
    (run_done /\ ~h_dirty /\ h_cfg.n = 1 /\ 0 <= end_arg /\ end_arg <= Len(arg_list)) =>
        LET r == one_pass(app_list, make_batches(0, default_end(end_arg, arg_list), batchsize),
                          1, <<>>, -1)
        IN /\ data_file.rows = r.rows
           /\ readable
           /\ checkpoint = IF r.ckpt = -1 THEN 0 ELSE r.ckpt

C3_Witness ==
    /\ run_done /\ ~h_dirty /\ h_cfg.n = 1 /\ 0 <= end_arg /\ end_arg <= Len(arg_list)
    /\ begin > 0 /\ begin < end_arg
    /\ Len(data_file.rows) = MaxLen

\* C4: after every successful batch [start, stop) the index file holds stop,
\* and the value in the index file never decreases except through reset_index
\* (it always is the largest value written since the last reset).
C4_CheckpointMonotonic ==
    /\ pc = "batch_done" => index_file = [exists |-> TRUE, text |-> print_line(batches[i + 1])]
    /\ (index_file.exists /\ readable) => checkpoint = h_max

C4_Witness ==
    /\ pc = "batch_done" /\ begin > 0 /\ i > 1
    /\ checkpoint = MaxLen

\* C5: a run that completes with 0 <= begin <= end <= len(app_list), begin the
\* checkpoint at its start, leaves checkpoint = end and exactly end - begin new
\* rows (end rows in all when it began at checkpoint 0).
C5_CleanRunPostcondition ==
    (run_done /\ begin <= end_arg /\ end_arg <= Len(arg_list)) =>
        /\ readable
        /\ checkpoint = end_arg
        /\ Len(data_file.rows) = h_rows0 + (end_arg - begin)
        /\ begin = 0 => Len(data_file.rows) = end_arg

C5_Witness ==
    /\ run_done /\ begin <= end_arg /\ end_arg <= Len(arg_list)
    /\ begin = 1 /\ end_arg = MaxLen /\ batchsize = 2

\* C6: called without an end (end = -1), process_batches uses len(app_list)
\* as end, and the last index it writes is len(app_list).
C6_DefaultEnd ==
    /\ (pc \in RunPcs \cup {"loop"} /\ end_arg = -1) => end = Len(arg_list)
    /\ (run_done /\ end_arg = -1 /\ readable /\ begin <= Len(arg_list)) =>
           checkpoint = Len(arg_list)

\* C7: at every batch boundary of runs that start from a fresh data file with
\* begin = get_index(), for any end, the checkpoint is the number of data rows.
C7_CheckpointCountsRows ==
    (~h_dirty /\ readable /\ (pc \in {"loop", "batch_done"} \/ run_done)) =>
        checkpoint = Len(data_file.rows)

(* ---------------------------- get_request ------------------------------ *)
\* most attempts of one get_request call explored
MaxAttempts == 4

Urls == {"http://store.steampowered.com/api/appdetails/", "https://steamspy.com/api.php"}

Parameters == {"None", "appids=10", "request=appdetails&appid=10"}

\* bodies the two APIs answer with: app details, no details, SteamSpy's
\* details, and the JSON null
ApiBodies ==
    {"{\"10\": {\"success\": true, \"data\": {\"name\": \"A\", \"steam_appid\": 10}}}",
     "{\"10\": {\"success\": false}}",
     "{\"appid\": 10, \"name\": \"A\"}",
     "null"}

\* what requests.get can do: return None (a stub transport), return a
\* Response with a status and a body, or raise
NoneResponse == [kind |-> "None", status |-> 0, body |-> "none"]

Responses ==
    {[kind |-> "Response", status |-> 200, body |-> b] : b \in {"{\"a\": 1}", "{}", "<html>"} \cup ApiBodies}
    \cup {[kind |-> "Response", status |-> s, body |-> "none"] : s \in {404, 429, 500}}

Raises == {[kind |-> "raise", status |-> 0, body |-> e] : e \in {"SSLError", "ConnectionError"}}

\* if response: a Response is true when its status is below 400, None is false
truthy(r) == r.kind = "Response" /\ r.status < 400

\* response.json() raises unless the body is JSON
json_ok(body) == body \in {"{\"a\": 1}", "{}"} \cup ApiBodies

\* response.json(): the decoded body
json(body) == CASE body = "{\"a\": 1}" -> "dict(a=1)"
                [] body = "{}" -> "dict()"
                [] body = "{\"10\": {\"success\": true, \"data\": {\"name\": \"A\", \"steam_appid\": 10}}}"
                       -> "dict(10=dict(success=True, data=dict(name=A, steam_appid=10)))"
                [] body = "{\"10\": {\"success\": false}}" -> "dict(10=dict(success=False))"
                [] body = "{\"appid\": 10, \"name\": \"A\"}" -> "dict(appid=10, name=A)"
                [] body = "null" -> "None"
                [] OTHER -> "undecodable"

\* the name SSLError is bound in the module (it is not: nothing imports it)
SSLError_is_bound == FALSE

\* faulty variant: the recursive call drops the parameters
retry_call_mut(u, p) == [url |-> u, parameters |-> "None"]

\* the arguments of the recursive call get_request(url, parameters)
retry_call(u, p) == [url |-> u, parameters |-> p]

\* the call get_request(url, parameters) is made
get_request_call ==
    /\ gr_pc \in {"idle", "returned", "raised"}
    /\ \E u \in Urls, p \in Parameters :
          /\ gr_url' = u
          /\ gr_parameters' = p
    /\ gr_pc' = "try"
    /\ gr_log' = <<>>
    /\ gr_hist' = <<>>
    /\ gr_exc' = "none"
    /\ gr_sleep1' = 0
    /\ gr_sleep10' = 0
    /\ gr_result' = [kind |-> "none", value |-> "none"]
    /\ UNCHANGED <<engine_vars, csv_vars, p_vars>>

\* response = requests.get(url=url, params=parameters)
requests_get ==
    /\ gr_pc = "try"
    /\ Len(gr_log) < MaxAttempts
    /\ gr_log' = Append(gr_log, [url |-> gr_url, parameters |-> gr_parameters])
    /\ \E r \in {NoneResponse} \cup Responses \cup Raises :
          /\ gr_hist' = Append(gr_hist, r)
          /\ gr_exc' = IF r.kind = "raise" THEN r.body ELSE "none"
          /\ gr_pc' = IF r.kind = "raise" THEN "except" ELSE "if_response"
    /\ UNCHANGED <<engine_vars, csv_vars, p_vars, gr_url, gr_parameters, gr_sleep1, gr_sleep10, gr_result>>

\* except SSLError as s: the countdown of five time.sleep(1) and the
\* recursive call; evaluating the unbound name SSLError raises NameError
except_clause ==
    /\ gr_pc = "except"
    /\ IF ~SSLError_is_bound
       THEN /\ gr_exc' = "NameError"
            /\ gr_result' = [kind |-> "exception", value |-> "NameError"]
            /\ gr_pc' = "raised"
            /\ UNCHANGED <<gr_url, gr_parameters, gr_sleep1>>
       ELSE IF gr_exc = "SSLError"
       THEN /\ gr_exc' = "none"
            /\ gr_sleep1' = gr_sleep1 + 5
            /\ gr_url' = retry_call(gr_url, gr_parameters).url
            /\ gr_parameters' = retry_call(gr_url, gr_parameters).parameters
            /\ gr_pc' = "try"
            /\ UNCHANGED gr_result
       ELSE /\ gr_result' = [kind |-> "exception", value |-> gr_exc]
            /\ gr_pc' = "raised"
            /\ UNCHANGED <<gr_url, gr_parameters, gr_sleep1, gr_exc>>
    /\ UNCHANGED <<engine_vars, csv_vars, p_vars, gr_log, gr_hist, gr_sleep10>>

\* if response: return response.json()  (else: the cooldown branch)
if_response ==
    /\ gr_pc = "if_response"
    /\ LET r == gr_hist[Len(gr_hist)] IN
       IF truthy(r)
       THEN IF json_ok(r.body)
            THEN /\ gr_result' = [kind |-> "return", value |-> json(r.body)]
                 /\ gr_pc' = "returned"
                 /\ UNCHANGED gr_exc
            ELSE /\ gr_result' = [kind |-> "exception", value |-> "JSONDecodeError"]
                 /\ gr_exc' = "JSONDecodeError"
                 /\ gr_pc' = "raised"
       ELSE /\ gr_pc' = "cooldown"
            /\ UNCHANGED <<gr_result, gr_exc>>
    /\ UNCHANGED <<engine_vars, csv_vars, p_vars, gr_url, gr_parameters, gr_log, gr_hist, gr_sleep1, gr_sleep10>>

\* time.sleep(10); return get_request(url, parameters)
cooldown_retry ==
    /\ gr_pc = "cooldown"
    /\ gr_sleep10' = gr_sleep10 + 1
    /\ gr_url' = retry_call(gr_url, gr_parameters).url
    /\ gr_parameters' = retry_call(gr_url, gr_parameters).parameters
    /\ gr_pc' = "try"
    /\ UNCHANGED <<engine_vars, csv_vars, p_vars, gr_log, gr_hist, gr_exc, gr_sleep1, gr_result>>

NextReq ==
    \/ get_request_call
    \/ requests_get
    \/ except_clause
    \/ if_response
    \/ cooldown_retry

SpecReq == Init /\ [][NextReq]_vars

(* -------------------------- claims on get_request --------------------- *)
\* the attempts of the call that got a false response (None or status >= 400)
falsy_attempts == {k \in 1..Len(gr_hist) : gr_hist[k].kind # "raise" /\ ~truthy(gr_hist[k])}

\* the last answer of requests.get in this call
last_answer == gr_hist[Len(gr_hist)]

C9_TlsRetry ==
    /\ (gr_pc = "raised" /\ gr_hist # <<>>) => last_answer.body # "SSLError"
    /\ (gr_pc = "try" /\ gr_hist # <<>> /\ last_answer.body = "SSLError") =>
           (gr_sleep1 >= 5 /\ gr_log[Len(gr_log)] = [url |-> gr_url, parameters |-> gr_parameters])

\* C10: an attempt that gets a permanent error response (404, 500) ends the
\* call in a failure to the caller: it is neither followed by a cooldown nor
\* by another attempt.
PermanentError(r) == r.kind = "Response" /\ r.status \in {404, 500}

C10_PermanentErrorEndsCall ==
    /\ gr_pc = "cooldown" => ~PermanentError(last_answer)
    /\ \A a \in 1..(Len(gr_hist) - 1) : ~PermanentError(gr_hist[a])

(* ------------------------------ Spec ----------------------------------- *)
Next ==
    \/ reset_index_open
    \/ reset_index_print
    \/ get_index
    \/ prepare_data_file
    \/ process_batches_start
    \/ loop_enter
    \/ loop_exit
    \/ fetch_row
    \/ parser_raises
    \/ open_data_file
    \/ write_row
    \/ close_data_file
    \/ open_index_file
    \/ print_index
    \/ next_batch
    \/ interrupt

Spec == Init /\ [][Next]_vars

(* ------------------- get_index on any index file ----------------------- *)
\* largest integer looked for in an index file by the claim on get_index
MaxIndex == 20

\* contents the index file may have when the script starts: absent, empty,
\* an integer with or without its newline, two lines, and text that is no integer
IndexFiles ==
    {NoIndexFile}
    \cup {[exists |-> TRUE, text |-> t] :
            t \in {<<>>, <<"0", "\n">>, <<"2", "\n">>, <<"1">>, <<"1", "2", "\n">>,
                   <<"2", "\n", "7", "\n">>, <<"\n">>, <<"x", "\n">>, <<"1", "x", "\n">>,
                   <<"\n", "1", "\n">>}}

InitIdx ==
    /\ app_list = [k \in 1..2 |-> 100 + k]
    /\ arg_list = app_list
    /\ index_file \in IndexFiles
    /\ engine_locals_init
    /\ gr_idle /\ csv_idle /\ p_idle

SpecIdx == InitIdx /\ [][Next]_vars

\* the first line of the text is the decimal numeral of n
holds_integer(text, n) == readline(text) \in {str(n), print_line(n)}

\* C11: get_index returns the integer the index file holds, returns 0 when the
\* file does not exist, and raises (never returns) when the file exists and its
\* first line is no integer, an empty file included.
C11_CheckpointRead ==
    /\ pc = "indexed" =>
          IF index_file.exists THEN holds_integer(index_file.text, index) ELSE index = 0
    /\ (pc = "idle" /\ outcome = "get_index_raised") =>
          /\ index_file.exists
          /\ \A n \in 0..MaxIndex : ~holds_integer(index_file.text, n)

C11_Witness ==
    /\ pc = "idle" /\ outcome = "get_index_raised"
    /\ index_file = open_w_index

(* ----------------------- claims on the data file ----------------------- *)
\* C12: prepare_data_file truncates (or creates) the data file and writes only
\* the header row if and only if the index passed is 0; for every index > 0 it
\* leaves the data file as it is.
C12_SinkInitialization ==
    [][pc = "indexed" =>
          IF index = 0
          THEN data_file' = [exists |-> TRUE, header |-> TRUE, rows |-> <<>>]
          ELSE data_file' = data_file]_vars

C12_Witness ==
    /\ pc = "prepared" /\ index > 0
    /\ data_file.header /\ Len(data_file.rows) = index

\* C13: after a collection completed with checkpoint n > 0, the sequence
\* reset_index, get_index, prepare_data_file, process_batches(begin = 0, same
\* end and batchsize) leaves the header and exactly the rows the data file
\* held before: the old rows are discarded, not appended to.
C13_ResetAndRerun ==
    (run_done /\ h_prev.valid) =>
        data_file = [exists |-> TRUE, header |-> TRUE, rows |-> h_prev.rows]

C13_Witness ==
    /\ run_done /\ h_prev.valid
    /\ Len(h_prev.rows) = MaxLen
    /\ checkpoint = MaxLen

\* C14: when the parser raises for an entity of batch [start, stop), the run
\* ends with the exception, no row of that batch is in the data file, the
\* index file still holds the stop of the last batch committed before it (or
\* its value at the start of the run), and the rows of the earlier batches of
\* the run are all in the data file.
C14_FetchFailureAborts ==
    (pc = "idle" /\ outcome = "raised" /\ failed_at = "parser") =>
        /\ Len(data_file.rows) = h_rows0 + apps_written
        /\ SubSeq(data_file.rows, h_rows0 + 1, Len(data_file.rows))
              = one_pass(app_list, SubSeq(batches, 1, i), 1, <<>>, -1).rows
        /\ readable
        /\ checkpoint = batches[i]

C14_Witness ==
    /\ pc = "idle" /\ outcome = "raised" /\ failed_at = "parser"
    /\ i = 2 /\ apps_written = 2 /\ todo # <<>>
    /\ checkpoint = 2

\* C15: for 0 <= begin <= end <= len(app_list) and batchsize >= 1 the batches
\* are the contiguous half-open slices [begin, begin+b), [begin+b, begin+2b), ...
\* that partition [begin, end): every batch has size b except possibly the
\* last, which is non-empty and not longer, and the rows reach the data file
\* in list order (list of 5, b = 2: [0,2), [2,4), [4,5), final checkpoint 5).
C15_BatchPartition ==
    /\ make_batches(0, 5, 2) = <<0, 2, 4, 5>>
    /\ one_pass([k \in 1..5 |-> 100 + k], make_batches(0, 5, 2), 1, <<>>, -1)
          = [rows |-> [k \in 1..5 |-> [index |-> k - 1, appid |-> 100 + k]], ckpt |-> 5]
    /\ (0 <= end_arg /\ begin <= end_arg /\ end_arg <= Len(arg_list)) =>
          LET n == Len(batches) - 1 IN
          /\ batches[1] = begin
          /\ batches[n + 1] = end_arg
          /\ \A k \in 1..(n - 1) : batches[k + 1] - batches[k] = batchsize
          /\ n >= 1 => (0 < batches[n + 1] - batches[n] /\ batches[n + 1] - batches[n] <= batchsize)
          /\ run_done =>
                /\ Len(data_file.rows) = h_rows0 + (end_arg - begin)
                /\ \A k \in 1..(end_arg - begin) :
                      data_file.rows[h_rows0 + k] = [index |-> begin + k - 1,
                                                     appid |-> arg_list[begin + k]]

C15_Witness ==
    /\ run_done /\ begin = 0 /\ end_arg = MaxLen /\ batchsize = 2
    /\ batches = <<0, 2, MaxLen>>
    /\ Len(data_file.rows) = MaxLen


(***************************************************************************)
(* The rows of the data file, lines 203-211: csv.DictWriter(f,             *)
(* fieldnames=columns, extrasaction='ignore') and writer.writerows.        *)
(***************************************************************************)

MaxRecords == 2

\* keys a parser's record may carry; "extra" is never a column
RecordKeys == {"appid", "name", "extra"}

\* values of a record: a text, or None
RecordValues == {"v", "None"}

\* the dicts a parser may return
Records == UNION {[S -> RecordValues] : S \in SUBSET RecordKeys}

\* the columns lists handed to process_batches; "price" is in no record
ColumnLists ==
    {<<"appid">>, <<"appid", "name">>, <<"name", "appid">>, <<"appid", "price", "name">>}

Range(f) == {f[k] : k \in DOMAIN f}

\* faulty variant: extrasaction left at its default 'raise'
extras_raise_mut(columns, rowdict) == DOMAIN rowdict \ Range(columns) # {}

\* DictWriter._dict_to_list with extrasaction='ignore': no key is rejected
extras_raise(columns, rowdict) == FALSE

\* the csv writer writes None as the empty text
cell(value) == IF value = "None" THEN "" ELSE value

\* DictWriter._dict_to_list: (rowdict.get(key, '') for key in fieldnames)
dict_to_list(columns, rowdict) ==
    [k \in 1..Len(columns) |->
        IF columns[k] \in DOMAIN rowdict THEN cell(rowdict[columns[k]]) ELSE ""]

InitCsv ==
    /\ engine_init /\ gr_idle /\ p_idle
    /\ csv_pc = "writerows"
    /\ csv_columns \in ColumnLists
    /\ csv_app_data \in UNION {[1..n -> Records] : n \in 0..MaxRecords}
    /\ csv_rows = <<>>

\* writer.writerows(app_data), one record at a time
writerow ==
    /\ csv_pc = "writerows"
    /\ Len(csv_rows) < Len(csv_app_data)
    /\ LET rowdict == csv_app_data[Len(csv_rows) + 1]
       IN  IF extras_raise(csv_columns, rowdict)
           THEN csv_pc' = "raised" /\ UNCHANGED csv_rows
           ELSE /\ csv_rows' = Append(csv_rows, dict_to_list(csv_columns, rowdict))
                /\ UNCHANGED csv_pc
    /\ UNCHANGED <<engine_vars, gr_vars, p_vars, csv_columns, csv_app_data>>

\* writerows has written every record
writerows_return ==
    /\ csv_pc = "writerows"
    /\ Len(csv_rows) = Len(csv_app_data)
    /\ csv_pc' = "written"
    /\ UNCHANGED <<engine_vars, gr_vars, p_vars, csv_columns, csv_app_data, csv_rows>>

NextCsv == writerow \/ writerows_return

SpecCsv == InitCsv /\ [][NextCsv]_vars

\* C16: every row appended has exactly the declared columns in declared
\* order whatever keys the record has: a key that is not a column is
\* ignored and never makes the write fail, and a column missing from the
\* record is an empty cell.
C16_SchemaCompleteness ==
    /\ csv_pc # "raised"
    /\ \A j \in 1..Len(csv_rows) :
        /\ Len(csv_rows[j]) = Len(csv_columns)
        /\ \A k \in 1..Len(csv_columns) :
            LET key == csv_columns[k]
                rowdict == csv_app_data[j]
            IN  /\ key \in DOMAIN rowdict /\ rowdict[key] # "None" => csv_rows[j][k] = rowdict[key]
                /\ key \notin DOMAIN rowdict => csv_rows[j][k] = ""

C16_Witness ==
    /\ csv_pc = "written"
    /\ csv_columns = <<"appid", "price", "name">>
    /\ Len(csv_rows) = MaxRecords
    /\ DOMAIN csv_app_data[1] = {"appid", "extra"}
    /\ csv_rows[1] = <<"v", "", "">>


\* process_batches is executing its loop
in_run == pc \in RunPcs \cup {"loop"}

\* process_batches has returned or raised, and nothing ran since
after_run == pc = "idle" /\ (outcome = "done" \/ (outcome = "raised" /\ failed_at # "reset_open"))

\* the statement process_batches is at, or was at when it ended
at == IF pc # "idle" THEN pc ELSE IF outcome = "done" THEN "loop" ELSE failed_at

\* the number of batches of this run appended to the data file, file closed
full_batches == IF at \in {"appended", "idx_open", "batch_done"} THEN i ELSE i - 1

\* the stop of the last of them; begin when there is none
last_stop == IF full_batches = 0 THEN begin ELSE batches[full_batches + 1]

\* C17: during and after every execution of process_batches, the index file
\* never holds a value larger than the stop of the last batch whose rows
\* are all in the closed data file: the stop of a batch is written only
\* after the append of its rows has completed.
C17_CommitOrder ==
    (in_run \/ after_run) =>
        LET recs == one_pass(app_list, SubSeq(batches, 1, full_batches + 1), 1, <<>>, -1).rows
            rows == data_file.rows
        IN  /\ Len(rows) >= h_rows0 + Len(recs)
            /\ SubSeq(rows, h_rows0 + 1, h_rows0 + Len(recs)) = recs
            /\ readable => checkpoint <= last_stop

C17_Witness ==
    /\ pc = "batch_done"
    /\ i = 2
    /\ readable /\ checkpoint = batches[3]
    /\ checkpoint = MaxLen
    /\ Len(data_file.rows) = MaxLen


(***************************************************************************)
(* process_batches called with an app_list argument of its own.            *)
(***************************************************************************)

\* lists a caller may pass as the app_list argument
ArgLists == {[k \in 1..n |-> 200 + k] : n \in 0..MaxLen}

InitArg ==
    /\ app_list = [k \in 1..2 |-> 100 + k]
    /\ arg_list \in ArgLists \cup {app_list}
    /\ index_file = NoIndexFile
    /\ engine_locals_init
    /\ gr_idle /\ csv_idle /\ p_idle

SpecArg == InitArg /\ [][Next]_vars

\* C18: the entities fetched for batch [start, stop) are the entries at
\* indices start..stop-1 of the app_list argument of process_batches, also
\* when the argument differs from the module-level app_list.
C18_EntityListIsParameter ==
    (pc \in RunPcs) =>
        /\ [k \in 1..Len(app_data) |-> app_data[k].index] \o todo
               = slice(arg_list, batches[i], batches[i + 1])
        /\ \A k \in 1..Len(app_data) : app_data[k].appid = arg_list[app_data[k].index + 1]


\* the index file holds one line, a non-negative integer
single_integer_line(f) == \E n \in 0..MaxIndex : f.text = print_line(n)

\* C19: whenever process_batches or reset_index has ended, by returning or
\* by being interrupted at any step, the index file is absent or holds a
\* single line with a non-negative integer.
C19_CheckpointWellFormed ==
    (pc = "idle") => (~index_file.exists \/ single_integer_line(index_file))


(***************************************************************************)
(* The four parsers: parse_steam_request, parse_steamspy_request,          *)
(* parse_steamspy_html, parse_steamcharts_html.                            *)
(***************************************************************************)

\* the row of app_list a parser is called for: parser(appid, name)
entity == [appid |-> "10", name |-> "A"]

ApiParsers == {"parse_steam_request", "parse_steamspy_request"}

HtmlParsers == {"parse_steamspy_html", "parse_steamcharts_html"}

\* url and parameters of the get_request call of an API parser
api_request(P) ==
    IF P = "parse_steam_request"
    THEN [url |-> "http://store.steampowered.com/api/appdetails/", parameters |-> "appids=10"]
    ELSE [url |-> "https://steamspy.com/api.php", parameters |-> "request=appdetails&appid=10"]

\* the keys (columns) of the record an HTML parser returns
html_keys(P) ==
    IF P = "parse_steamspy_html"
    THEN {"appid", "name", "followers", "old_userscore"}
    ELSE {"appid", "name", "24-hour peak", "all-time peak", "all-time peak date"}

\* a record with the id and the name of the entity and None elsewhere
minimal(keys, id_key) ==
    [k \in keys |-> IF k = id_key THEN entity.appid
                    ELSE IF k = "name" THEN entity.name ELSE "None"]

\* a record with every key filled from the page
filled(keys) ==
    [k \in keys |-> IF k = "appid" THEN entity.appid
                    ELSE IF k = "name" THEN entity.name ELSE "7"]

returns(fields) == [kind |-> "dict", exc |-> "none", fields |-> fields]

raises(e) == [kind |-> "exception", exc |-> e, fields |-> <<>>]

\* json_data[str(appid)]: the exception it raises, or "none"
subscript_raises(json_data) ==
    CASE json_data = "None" -> "TypeError"
      [] json_data \in {"dict(10=dict(success=True, data=dict(name=A, steam_appid=10)))",
                        "dict(10=dict(success=False))"} -> "none"
      [] OTHER -> "KeyError"

\* json_app_data['success']
success(json_data) ==
    json_data = "dict(10=dict(success=True, data=dict(name=A, steam_appid=10)))"

\* parse_steam_request after get_request returned json_data
steam_request_data(json_data) ==
    IF subscript_raises(json_data) # "none" THEN raises(subscript_raises(json_data))
    ELSE IF success(json_data) THEN returns([name |-> "A", steam_appid |-> "10"])
    ELSE returns(minimal({"name", "steam_appid"}, "steam_appid"))

\* parse_steamspy_request after get_request returned json_data: return json_data
steamspy_request_data(json_data) ==
    CASE json_data = "None" -> [kind |-> "None", exc |-> "none", fields |-> <<>>]
      [] json_data = "dict(appid=10, name=A)" -> returns([appid |-> "10", name |-> "A"])
      [] json_data = "dict(a=1)" -> returns([a |-> "1"])
      [] json_data = "dict()" -> returns(<<>>)
      [] OTHER -> returns("10" :> "dict")

\* what requests.get(url) answers to an HTML parser: a page with the
\* statistics, a page without them, an error status, or an exception
HtmlAnswers ==
    {[kind |-> "Response", status |-> 200, body |-> b] : b \in {"stats", "no stats"}}
    \cup {[kind |-> "Response", status |-> s, body |-> "none"] : s \in {404, 429, 500}}
    \cup Raises

\* parse_steamspy_html / parse_steamcharts_html: every exception is caught
\* (except Exception) and answered with the minimal record, like a status
\* other than 200; a page without the tags gives None for the statistics
html_data(P, r) ==
    IF r.kind = "Response" /\ r.status = 200 /\ r.body = "stats"
    THEN returns(filled(html_keys(P)))
    ELSE returns(minimal(html_keys(P), "appid"))

\* parse_steam_request / parse_steamspy_request is called: get_request(url, parameters)
api_parser_call(P) ==
    /\ p_pc \in {"idle", "done"}
    /\ p_parser' = P
    /\ p_answer' = "none"
    /\ p_result' = NoResult
    /\ p_pc' = "get_request"
    /\ gr_url' = api_request(P).url
    /\ gr_parameters' = api_request(P).parameters
    /\ gr_pc' = "try"
    /\ gr_log' = <<>>
    /\ gr_hist' = <<>>
    /\ gr_exc' = "none"
    /\ gr_sleep1' = 0
    /\ gr_sleep10' = 0
    /\ gr_result' = [kind |-> "none", value |-> "none"]
    /\ UNCHANGED <<engine_vars, csv_vars>>

parse_steam_request_call == api_parser_call("parse_steam_request")

parse_steamspy_request_call == api_parser_call("parse_steamspy_request")

\* get_request returned: the rest of parse_steam_request
parse_steam_request ==
    /\ p_pc = "get_request"
    /\ p_parser = "parse_steam_request"
    /\ gr_pc = "returned"
    /\ p_result' = steam_request_data(gr_result.value)
    /\ p_pc' = "done"
    /\ UNCHANGED <<engine_vars, gr_vars, csv_vars, p_parser, p_answer>>

\* get_request returned: return json_data
parse_steamspy_request ==
    /\ p_pc = "get_request"
    /\ p_parser = "parse_steamspy_request"
    /\ gr_pc = "returned"
    /\ p_result' = steamspy_request_data(gr_result.value)
    /\ p_pc' = "done"
    /\ UNCHANGED <<engine_vars, gr_vars, csv_vars, p_parser, p_answer>>

\* get_request raised: neither API parser has a try block
get_request_propagates ==
    /\ p_pc = "get_request"
    /\ gr_pc = "raised"
    /\ p_result' = raises(gr_result.value)
    /\ p_pc' = "done"
    /\ UNCHANGED <<engine_vars, gr_vars, csv_vars, p_parser, p_answer>>

\* an HTML parser from its call to its return
html_parser(P) ==
    /\ p_pc \in {"idle", "done"}
    /\ \E r \in HtmlAnswers :
          /\ p_answer' = r
          /\ p_result' = html_data(P, r)
    /\ p_parser' = P
    /\ p_pc' = "done"
    /\ UNCHANGED <<engine_vars, gr_vars, csv_vars>>

parse_steamspy_html == html_parser("parse_steamspy_html")

parse_steamcharts_html == html_parser("parse_steamcharts_html")

NextParse ==
    \/ parse_steam_request_call
    \/ parse_steamspy_request_call
    \/ requests_get
    \/ except_clause
    \/ if_response
    \/ cooldown_retry
    \/ parse_steam_request
    \/ parse_steamspy_request
    \/ get_request_propagates
    \/ parse_steamspy_html
    \/ parse_steamcharts_html

SpecParse == Init /\ [][NextParse]_vars

\* the key of the entity's id in the record of parser P
id_key(P) == IF P = "parse_steam_request" THEN "steam_appid" ELSE "appid"

\* the remote had no data for the entity, or the fetch failed in a way the
\* program treats as recoverable (an SSLError; an error status for a page)
no_data_or_recoverable ==
    IF p_parser \in ApiParsers
    THEN \/ last_answer.kind = "raise" /\ last_answer.body = "SSLError"
         \/ p_parser = "parse_steam_request" /\ last_answer.body = "{\"10\": {\"success\": false}}"
    ELSE p_answer.kind = "raise" \/ p_answer.status # 200 \/ p_answer.body = "no stats"

\* C20: a parser that ends after the remote had no data for the entity, or
\* after a recoverable failure of the fetch, returns a record that carries
\* at least the entity's id and name; it does not raise.
C20_NoEntityDropped ==
    (p_pc = "done" /\ no_data_or_recoverable) =>
        /\ p_result.kind = "dict"
        /\ {id_key(p_parser), "name"} \subseteq DOMAIN p_result.fields
        /\ p_result.fields[id_key(p_parser)] = entity.appid
        /\ p_result.fields["name"] = entity.name


\* the call in progress has an empty range: begin >= end, end not the default -1
empty_range(b, e) == e # -1 /\ b >= e

\* C21: a call of process_batches with begin >= end (end not the default)
\* goes from its call straight to its return: the parser is not called, no
\* row is appended and the index file is not written, so data file and
\* index file are on return what they were at the call.
C21_EmptyRangeChangesNothing ==
    [][/\ (pc = "prepared" /\ pc' = "loop" /\ empty_range(begin', end_arg')) =>
              /\ data_file' = data_file
              /\ index_file' = index_file
              /\ app_data' = <<>>
       /\ (pc = "loop" /\ empty_range(begin, end_arg)) =>
              /\ pc' = "idle" /\ outcome' = "done"
              /\ data_file' = data_file
              /\ index_file' = index_file
              /\ app_data' = <<>>
              /\ apps_written' = 0]_vars

C21_Witness ==
    /\ run_done
    /\ begin = 2 /\ end_arg = 1
    /\ apps_written = 0
    /\ Len(data_file.rows) = 2
    /\ readable /\ checkpoint = 2


(***************************************************************************)
(* The driver blocks, lines 322-342 and 373-390: reset_index, get_index,   *)
(* prepare_data_file, process_batches(begin=index), executed any number    *)
(* of times.                                                               *)
(***************************************************************************)

\* faulty variant: the driver without its reset_index call
driver_get_index_mut == get_index

\* index = get_index(...): in the driver it follows reset_index
driver_get_index == outcome = "reset" /\ get_index

\* the first execution finds any index file
InitDriver ==
    /\ app_list \in AppLists
    /\ arg_list = app_list
    /\ index_file \in IndexFiles
    /\ engine_locals_init
    /\ gr_idle /\ csv_idle /\ p_idle

NextDriver ==
    \/ reset_index_open
    \/ reset_index_print
    \/ driver_get_index
    \/ prepare_data_file
    \/ process_batches_start
    \/ loop_enter
    \/ loop_exit
    \/ fetch_row
    \/ parser_raises
    \/ open_data_file
    \/ write_row
    \/ close_data_file
    \/ open_index_file
    \/ print_index
    \/ next_batch
    \/ interrupt

SpecDriver == InitDriver /\ [][NextDriver]_vars

\* C22: in every execution of the driver the index read is 0, whatever the
\* index file held before, so prepare_data_file leaves a data file with the
\* header only and process_batches starts at entity 0, whatever had been
\* collected before.
C22_DriverNeverResumes ==
    /\ pc = "indexed" => index = 0
    /\ pc = "prepared" => data_file = [exists |-> TRUE, header |-> TRUE, rows |-> <<>>]
    /\ in_run => begin = 0 /\ h_rows0 = 0 /\ batches[1] = 0

C22_Witness ==
    /\ pc = "fetch"
    /\ h_prev.valid /\ Len(h_prev.rows) = MaxLen
    /\ begin = 0 /\ i = 1
    /\ data_file.rows = <<>>

====
